---- MODULE Spec2Model ----
(***************************************************************************)
(* postcss-auto-var-fallback: the plugin's Once hook (source loading and   *)
(* precedence merge, circular reference detection, variable resolution     *)
(* with the module-level caches, declaration rewriting).                   *)
(*                                                                         *)
(* Text is a sequence of tokens.  A token is one character of the text or  *)
(* an indivisible run of characters: "var(" is the four characters the     *)
(* scanner's pattern starts with, "," ")" " " are the characters the       *)
(* pattern and trim() tell apart, "calc(" is a function name with its      *)
(* opening parenthesis, "$&" is the two characters String.replace expands, *)
(* and every other token (a name such as "--a", a literal such as "10px")  *)
(* is a run of characters none of which the pattern treats specially.      *)
(* Concatenation of token sequences is concatenation of the texts.         *)
(***************************************************************************)
EXTENDS Integers, Sequences, FiniteSets, TLC

\* ------------------------------------------------------------------ text

VarOpen == "var("
Comma == ","
Close == ")"
Space == " "
DollarAmp == "$&"

\* The least index in from..Len(s) whose token is in set, 0 when there is none.
RECURSIVE IndexIn(_, _, _)
IndexIn(s, from, set) ==
    IF from > Len(s) THEN 0
    ELSE IF s[from] \in set THEN from
    ELSE IndexIn(s, from + 1, set)

Slice(s, from, to) == IF from > to THEN <<>> ELSE SubSeq(s, from, to)

RECURSIVE TrimLeft(_)
TrimLeft(s) == IF s # <<>> /\ Head(s) = Space THEN TrimLeft(Tail(s)) ELSE s

RECURSIVE TrimRight(_)
TrimRight(s) ==
    IF s # <<>> /\ s[Len(s)] = Space THEN TrimRight(Slice(s, 1, Len(s) - 1)) ELSE s

\* String.prototype.trim
Trim(s) == TrimRight(TrimLeft(s))

\* The least index k >= from at which pat occurs in s, 0 when there is none.
RECURSIVE IndexOfFrom(_, _, _)
IndexOfFrom(s, pat, from) ==
    IF from + Len(pat) - 1 > Len(s) THEN 0
    ELSE IF Slice(s, from, from + Len(pat) - 1) = pat THEN from
    ELSE IndexOfFrom(s, pat, from + 1)

\* The replacement text of String.prototype.replace with a string pattern:
\* "$&" in the replacement stands for the matched text.
RECURSIVE GetSubstitution(_, _)
GetSubstitution(rep, matched) ==
    IF rep = <<>> THEN <<>>
    ELSE (IF Head(rep) = DollarAmp THEN matched ELSE <<Head(rep)>>)
         \o GetSubstitution(Tail(rep), matched)

\* String.prototype.replace(pat, rep) with a string pattern: the first
\* occurrence of pat only, and none when pat does not occur.
Replace(s, pat, rep) ==
    LET k == IndexOfFrom(s, pat, 1)
    IN  IF k = 0 THEN s
        ELSE Slice(s, 1, k - 1) \o GetSubstitution(rep, pat)
             \o Slice(s, k + Len(pat), Len(s))

\* --------------------------------------------------------------- scanner

NoMatch == [found |-> FALSE, start |-> 0, end |-> 0, name |-> <<>>,
            hasFallback |-> FALSE, fallback |-> <<>>]

\* /var\(([^,)]+)(?:,([^)]+))?\)/ tried at index p of s.  Group 1 runs to the
\* first "," or ")" and is not empty; after a "," group 2 runs to the first
\* ")" and is not empty; the match ends at that ")".
MatchAt(s, p) ==
    IF p > Len(s) \/ s[p] # VarOpen THEN NoMatch
    ELSE LET r == IndexIn(s, p + 1, {Comma, Close})
         IN  IF r = 0 \/ r = p + 1 THEN NoMatch
             ELSE IF s[r] = Close
             THEN [found |-> TRUE, start |-> p, end |-> r,
                   name |-> Slice(s, p + 1, r - 1),
                   hasFallback |-> FALSE, fallback |-> <<>>]
             ELSE LET t == IndexIn(s, r + 1, {Close})
                  IN  IF t = 0 \/ t = r + 1 THEN NoMatch
                      ELSE [found |-> TRUE, start |-> p, end |-> t,
                            name |-> Slice(s, p + 1, r - 1),
                            hasFallback |-> TRUE,
                            fallback |-> Slice(s, r + 1, t - 1)]

\* varRegex.exec(s) with lastIndex = from - 1: the leftmost match at or after from.
RECURSIVE Exec(_, _)
Exec(s, from) ==
    IF from > Len(s) THEN NoMatch
    ELSE LET m == MatchAt(s, from)
         IN  IF m.found THEN m ELSE Exec(s, from + 1)

\* Every match of the global pattern in s, in the order the while loop sees them.
RECURSIVE MatchesFrom(_, _)
MatchesFrom(s, from) ==
    LET m == Exec(s, from)
    IN  IF m.found THEN <<m>> \o MatchesFrom(s, m.end + 1) ELSE <<>>

Matches(s) == MatchesFrom(s, 1)

FullMatch(s, m) == Slice(s, m.start, m.end)

\* ------------------------------------------------------------------ Map

\* A JS Map is a sequence of <<key, value>> pairs in insertion order.
RECURSIVE MapIndex(_, _)
MapIndex(map, key) ==
    IF map = <<>> THEN 0
    ELSE IF map[Len(map)][1] = key THEN Len(map)
    ELSE MapIndex(Slice(map, 1, Len(map) - 1), key)

MapHas(map, key) == MapIndex(map, key) # 0
MapGet(map, key) == map[MapIndex(map, key)][2]
MapKeys(map) == {map[k][1] : k \in 1..Len(map)}

\* Map.prototype.set: a present key keeps its place and takes the new value.
MapSet(map, key, value) ==
    IF MapHas(map, key)
    THEN [map EXCEPT ![MapIndex(map, key)] = <<key, value>>]
    ELSE Append(map, <<key, value>>)

\* --------------------------------------------------- module-level caches

\* variableCache: a set of <<cacheKey, resolvedValue>> pairs, one per key.
CacheHas(cache, key) == \E e \in cache : e[1] = key
CacheGet(cache, key) == (CHOOSE e \in cache : e[1] = key)[2]
CacheSet(cache, key, value) == {e \in cache : e[1] # key} \cup {<<key, value>>}

\* Array.from(variableMap.entries()).join(","): each entry prints as
\* key,value and the entries are joined by commas.
RECURSIVE EntriesJoin(_)
EntriesJoin(map) ==
    IF map = <<>> THEN <<>>
    ELSE map[1][1] \o <<Comma>> \o map[1][2]
         \o (IF Len(map) > 1 THEN <<Comma>> ELSE <<>>) \o EntriesJoin(Tail(map))

\* A key made of the entries alone, without the name.
KeyOfEntries(varName, variableMap) == EntriesJoin(variableMap)

cacheKey(varName, variableMap) == varName \o EntriesJoin(variableMap)

\* ----------------------------------------------------- extractVariables

\* decl.prop.startsWith("--")
CustomProps == {"--a", "--b", "--c"}
IsCustomProp(prop) == prop \in CustomProps

\* The Map of a parsed sheet: every custom property declaration in document
\* order, a later declaration of a name replacing the earlier value.
RECURSIVE extractVariables(_)
extractVariables(decls) ==
    IF decls = <<>> THEN <<>>
    ELSE LET rest == extractVariables(Slice(decls, 1, Len(decls) - 1))
             d == decls[Len(decls)]
         IN  IF IsCustomProp(d.prop) THEN MapSet(rest, <<d.prop>>, d.value) ELSE rest

\* A merge in which the first source to declare a name keeps it.
SetIfAbsent(variableMap, key, value) ==
    IF MapHas(variableMap, key) THEN variableMap ELSE MapSet(variableMap, key, value)

\* fileVariables.forEach((value, key) => variableMap.set(key, value))
SetEntry(variableMap, key, value) == MapSet(variableMap, key, value)

RECURSIVE MergeVariables(_, _)
MergeVariables(variableMap, fileVariables) ==
    IF fileVariables = <<>> THEN variableMap
    ELSE MergeVariables(SetEntry(variableMap, fileVariables[1][1], fileVariables[1][2]),
                        Tail(fileVariables))

\* ------------------------------------------------------ resolveVariable

Null == [isNull |-> TRUE, val |-> <<>>]
Str(s) == [isNull |-> FALSE, val |-> s]

\* The body of the while loop of resolveVariable for one match: the nested
\* call's text is replaced by the nested resolution, else by the trimmed
\* fallback, else left.
Substitute(resolvedValue, fullMatch, nested, m) ==
    IF ~nested.isNull THEN Replace(resolvedValue, fullMatch, nested.val)
    ELSE IF m.hasFallback THEN Replace(resolvedValue, fullMatch, Trim(m.fallback))
    ELSE resolvedValue

\* What resolveVariable has at the end of its while loop, after one more
\* match m of value whose nested call returned nested.
Nested(acc, value, m, nested) ==
    [resolvedValue |-> Substitute(acc.resolvedValue, FullMatch(value, m),
                                  nested.res, m),
     cache |-> nested.cache, warns |-> acc.warns \o nested.warns,
     circ |-> acc.circ + nested.circ]

\* variableCache.set(cacheKey, resolvedValue); return resolvedValue
Returned(key, r) ==
    [res |-> [isNull |-> FALSE, val |-> r.resolvedValue],
     cache |-> CacheSet(r.cache, key, r.resolvedValue),
     warns |-> r.warns, circ |-> r.circ]

\* resolveVariable(varName, variableMap, resolving, result) with the module's
\* variableCache threaded through: res is the returned value, cache the cache
\* afterwards, warns the names result.warn was called for, circ the number of
\* times the resolving.has(varName) branch was taken.
RECURSIVE resolveVariable(_, _, _, _)
RECURSIVE ResolveLoop(_, _, _, _, _, _)
resolveVariable(varName, variableMap, resolving, cache) ==
    IF varName \in resolving
    THEN [res |-> Null, cache |-> cache, warns |-> <<varName>>, circ |-> 1]
    ELSE IF ~MapHas(variableMap, varName)
    THEN [res |-> Null, cache |-> cache, warns |-> <<>>, circ |-> 0]
    ELSE IF CacheHas(cache, cacheKey(varName, variableMap))
    THEN [res |-> Str(CacheGet(cache, cacheKey(varName, variableMap))),
          cache |-> cache, warns |-> <<>>, circ |-> 0]
    ELSE Returned(cacheKey(varName, variableMap),
                  ResolveLoop(MapGet(variableMap, varName),
                              Matches(MapGet(variableMap, varName)), 1,
                              variableMap, resolving \cup {varName},
                              [resolvedValue |-> MapGet(variableMap, varName),
                               cache |-> cache, warns |-> <<>>, circ |-> 0]))

\* The while loop over the matches ms of value, from match k on; every
\* nested call gets a copy of resolving.
ResolveLoop(value, ms, k, variableMap, resolving, acc) ==
    IF k > Len(ms) THEN acc
    ELSE ResolveLoop(value, ms, k + 1, variableMap, resolving,
                     Nested(acc, value, ms[k],
                            resolveVariable(Trim(ms[k].name), variableMap,
                                            resolving, acc.cache)))

\* ------------------------------------------------------- detectCircular

Deeper(d, depth) == [d EXCEPT !.depth = IF @ > depth THEN @ ELSE depth]

\* detectCircular(varName, path) with circularRefs and the warnings threaded
\* through; depth is the deepest path any call of the walk was entered with.
RECURSIVE detectCircular(_, _, _, _, _)
RECURSIVE DetectLoop(_, _, _, _, _, _, _, _)
RECURSIVE DetectNext(_, _, _, _, _, _)
detectCircular(varName, path, variableMap, refs, warns) ==
    IF varName \in path
    THEN [found |-> TRUE, refs |-> refs \cup {varName},
          warns |-> Append(warns, varName), depth |-> Cardinality(path)]
    ELSE IF ~MapHas(variableMap, varName)
    THEN [found |-> FALSE, refs |-> refs, warns |-> warns,
          depth |-> Cardinality(path)]
    ELSE DetectLoop(varName, Matches(MapGet(variableMap, varName)), 1,
                    path \cup {varName}, variableMap, refs, warns,
                    Cardinality(path))

\* The while loop of detectCircular from match k on.
DetectLoop(varName, ms, k, newPath, variableMap, refs, warns, depth) ==
    IF k > Len(ms)
    THEN [found |-> FALSE, refs |-> refs, warns |-> warns, depth |-> depth]
    ELSE DetectNext(varName, ms, k, newPath, variableMap,
                    Deeper(detectCircular(Trim(ms[k].name), newPath, variableMap,
                                          refs, warns), depth))

\* A walk that goes on to the next reference after a revisit was found
\* below it.
DetectNextGoesOn(varName, ms, k, newPath, variableMap, d) ==
    DetectLoop(varName, ms, k + 1, newPath, variableMap,
               IF d.found THEN d.refs \cup {varName} ELSE d.refs, d.warns, d.depth)

\* A walk that returns true without circularRefs.add(varName): only the
\* revisited name is added.
DetectNextAddsNothing(varName, ms, k, newPath, variableMap, d) ==
    IF d.found THEN d
    ELSE DetectLoop(varName, ms, k + 1, newPath, variableMap, d.refs, d.warns,
                    d.depth)

\* if (detectCircular(...)) { circularRefs.add(varName); return true; }
DetectNext(varName, ms, k, newPath, variableMap, d) ==
    IF d.found THEN [d EXCEPT !.refs = @ \cup {varName}]
    ELSE DetectLoop(varName, ms, k + 1, newPath, variableMap, d.refs, d.warns,
                    d.depth)

\* for (const [varName] of variableMap.entries()) detectCircular(varName)
RECURSIVE DetectFrom(_, _, _)
DetectFrom(variableMap, k, acc) ==
    IF k > Len(variableMap) THEN acc
    ELSE DetectFrom(variableMap, k + 1,
                    Deeper(detectCircular(variableMap[k][1], {}, variableMap,
                                          acc.refs, acc.warns), acc.depth))

DetectAll(variableMap) ==
    DetectFrom(variableMap, 1,
               [found |-> FALSE, refs |-> {}, warns |-> <<>>, depth |-> 0])

\* ------------------------------------------------------------- rewriter

\* A rewriter that does not look at circularRefs.
NeverSkip(trimmedVarName, circularRefs) == FALSE

\* if (circularRefs.has(trimmedVarName))
SkipCircular(trimmedVarName, circularRefs) == trimmedVarName \in circularRefs

\* if (resolvedValue): null and the empty string are falsy.
Truthy(res) == ~res.isNull /\ res.val # <<>>

\* `var(${trimmedVarName}, ${resolvedValue})`
WithFallback(trimmedVarName, resolvedValue) ==
    <<VarOpen>> \o trimmedVarName \o <<Comma, Space>> \o resolvedValue \o <<Close>>

\* A rewriter that keeps the name of an occurrence it cannot resolve and
\* drops the fallback clause.
KeptWithoutFallback(value, m) == <<VarOpen>> \o m.name \o <<Close>>

\* newValue += fullMatch
KeptOccurrence(value, m) == FullMatch(value, m)

\* The else branch of the loop body, given the result r of resolveVariable:
\* the occurrence with the resolved value as its fallback if (resolvedValue),
\* else the occurrence as it was.
Resolved(value, m, trimmedVarName, r) ==
    [piece |-> IF Truthy(r.res) THEN WithFallback(trimmedVarName, r.res.val)
               ELSE KeptOccurrence(value, m),
     modified |-> Truthy(r.res), cache |-> r.cache, warns |-> r.warns,
     circ |-> r.circ, calls |-> <<<<trimmedVarName, r.res>>>>]

\* The loop body for one match: the text appended to newValue for it
\* (piece), whether it sets modified, and what resolveVariable did.
RewriteMatch(value, m, variableMap, circularRefs, cache) ==
    IF SkipCircular(Trim(m.name), circularRefs)
    THEN [piece |-> KeptOccurrence(value, m), modified |-> FALSE, cache |-> cache,
          warns |-> <<>>, circ |-> 0, calls |-> <<>>]
    ELSE Resolved(value, m, Trim(m.name),
                  resolveVariable(Trim(m.name), variableMap, {}, cache))

Accumulate(acc, value, m, lastEnd, step) ==
    [newValue |-> acc.newValue \o Slice(value, lastEnd + 1, m.start - 1) \o step.piece,
     modified |-> acc.modified \/ step.modified, cache |-> step.cache,
     warns |-> acc.warns \o step.warns, circ |-> acc.circ + step.circ,
     calls |-> acc.calls \o step.calls, pieces |-> Append(acc.pieces, step.piece)]

\* The while loop of the walkDecls callback from match k on: lastEnd is the
\* index of the last token consumed (lastIndex), calls the log of the
\* resolveVariable calls made, <<name, result>>, pieces the text appended
\* to newValue for each match.
RECURSIVE RewriteLoop(_, _, _, _, _, _, _)
RewriteLoop(value, ms, k, lastEnd, variableMap, circularRefs, acc) ==
    IF k > Len(ms)
    THEN [acc EXCEPT !.newValue = @ \o Slice(value, lastEnd + 1, Len(value))]
    ELSE RewriteLoop(value, ms, k + 1, ms[k].end, variableMap, circularRefs,
                     Accumulate(acc, value, ms[k], lastEnd,
                                RewriteMatch(value, ms[k], variableMap,
                                             circularRefs, acc.cache)))

\* if (modified) decl.value = newValue
Assigned(value, r) ==
    [value |-> IF r.modified THEN r.newValue ELSE value, cache |-> r.cache,
     warns |-> r.warns, circ |-> r.circ, calls |-> r.calls, pieces |-> r.pieces]

\* The walkDecls callback on one declaration value.
RewriteDecl(value, variableMap, circularRefs, cache) ==
    Assigned(value,
             RewriteLoop(value, Matches(value), 1, 0, variableMap, circularRefs,
                         [newValue |-> <<>>, modified |-> FALSE, cache |-> cache,
                          warns |-> <<>>, circ |-> 0, calls |-> <<>>,
                          pieces |-> <<>>]))

Walked(acc, r) ==
    [decls |-> Append(acc.decls, r.value), cache |-> r.cache,
     warns |-> acc.warns \o r.warns, circ |-> acc.circ + r.circ,
     calls |-> acc.calls \o r.calls, pieces |-> Append(acc.pieces, r.pieces)]

\* root.walkDecls(...): every declaration of the document in order.
RECURSIVE WalkDecls(_, _, _, _, _)
WalkDecls(decls, k, variableMap, circularRefs, acc) ==
    IF k > Len(decls) THEN acc
    ELSE WalkDecls(decls, k + 1, variableMap, circularRefs,
                   Walked(acc, RewriteDecl(decls[k], variableMap, circularRefs,
                                           acc.cache)))

\* ---------------------------------------------------------------- state

VARIABLES
    fs,             \* the file system: path -> [kind, decls]
    fileCache,      \* module level: the set of <<path, root>> pairs (line 6)
    variableCache,  \* module level: the set of <<cacheKey, value>> pairs (line 9)
    run,            \* the plugin instances, each processing its document
    call            \* the last direct call of resolveVariable and its result

vars == <<fs, fileCache, variableCache, run, call>>

\* Two plugin instances of the one module, each with its own options.
Runs == {1, 2}

\* The warnings of result.warn.
ConfigWarning == [type |-> "config", word |-> <<>>]
FileWarning(fallbackPath) == [type |-> "file", word |-> <<fallbackPath>>]
CircularWarning(varName) == [type |-> "circular", word |-> varName]

RECURSIVE CircularWarnings(_)
CircularWarnings(names) ==
    IF names = <<>> THEN <<>>
    ELSE <<CircularWarning(Head(names))>> \o CircularWarnings(Tail(names))

\* const { fallbacks = [] } = opts: only an absent option takes the default.
EmptyArray == [kind |-> "array", items |-> <<>>]
Fallbacks(opts) == IF opts.kind = "absent" THEN EmptyArray ELSE opts

\* A check of the length alone, without Array.isArray.
OnlyEmpty(fallbacks) == fallbacks.kind # "null" /\ Len(fallbacks.items) = 0

\* if (!Array.isArray(fallbacks) || fallbacks.length === 0)
InvalidFallbacks(fallbacks) == fallbacks.kind # "array" \/ Len(fallbacks.items) = 0

\* fallbacks.length of the for loop throws a TypeError on null.
LengthThrows(fallbacks) == fallbacks.kind = "null"

\* path.resolve(dir, fallbackPath) throws a TypeError unless fallbackPath is a string.
NotAString == "<42>"
ResolveThrows(fallbackPath) == fallbackPath = NotAString

FileCacheHas(cache, path) == \E e \in cache : e[1] = path
FileCacheGet(cache, path) == (CHOOSE e \in cache : e[1] = path)[2]
FileCacheSet(cache, path, root) == {e \in cache : e[1] # path} \cup {<<path, root>>}

\* fs.readFile rejects for a path that is no readable file, postcss.parse
\* throws a CssSyntaxError on a sheet it cannot parse.
LoadThrows(files, path) == path \notin DOMAIN files \/ files[path].kind # "ok"

\* A catch block that swallows the failure.
CaughtSilently(rr, fallbackPath) == rr

\* The catch block of the loop: a warning naming the source, and on.
Caught(rr, fallbackPath) ==
    [rr EXCEPT !.warnings = Append(@, FileWarning(fallbackPath))]

\* The run when Once returns: d is what the detection pre-pass found, w
\* what walkDecls did.
Processed(rr, d, w) ==
    [run |-> [rr EXCEPT !.pc = "done",
                        !.circularRefs = d.refs,
                        !.warnings = @ \o CircularWarnings(d.warns \o w.warns),
                        !.root = w.decls,
                        !.circ = w.circ,
                        !.calls = w.calls,
                        !.pieces = w.pieces],
     variableCache |-> w.cache]

Rewritten(rr, cache, d) ==
    Processed(rr, d,
              WalkDecls(rr.root, 1, rr.variableMap, d.refs,
                        [decls |-> <<>>, cache |-> cache, warns |-> <<>>,
                         circ |-> 0, calls |-> <<>>, pieces |-> <<>>]))

\* The synchronous end of Once: the detection pre-pass and walkDecls.
Process(rr, cache) == Rewritten(rr, cache, DetectAll(rr.variableMap))

\* loadCssFile up to its await: the cached root if fileCache has the path.
Awaiting(rr, i, fallbackPath, fcache) ==
    [rr EXCEPT !.pc = "await", !.i = i,
               !.pending = IF FileCacheHas(fcache, fallbackPath)
                           THEN [hit |-> TRUE, root |-> FileCacheGet(fcache, fallbackPath)]
                           ELSE [hit |-> FALSE, root |-> <<>>]]

\* The for loop from iteration i up to its next await: a source whose path
\* does not resolve is warned about and skipped, loadCssFile answers from
\* fileCache or starts the read, and past the last source the run ends
\* with Process.
RECURSIVE Advance(_, _, _, _)
Advance(rr, i, fcache, vcache) ==
    IF LengthThrows(Fallbacks(rr.opts))
    THEN [run |-> [rr EXCEPT !.pc = "threw"], variableCache |-> vcache]
    ELSE IF i > Len(Fallbacks(rr.opts).items) THEN Process(rr, vcache)
    ELSE IF ResolveThrows(Fallbacks(rr.opts).items[i])
    THEN Advance(Caught(rr, Fallbacks(rr.opts).items[i]), i + 1, fcache, vcache)
    ELSE [run |-> Awaiting(rr, i, Fallbacks(rr.opts).items[i], fcache),
          variableCache |-> vcache]

NoPending == [hit |-> FALSE, root |-> <<>>]

\* A new call of Once: the document as it is now, a new Result, a new
\* variableMap and circularRefs.
Started(rr) ==
    [rr EXCEPT !.pass = @ + 1, !.doc = rr.root, !.warnings = <<>>,
               !.variableMap = <<>>, !.circularRefs = {}, !.i = 0,
               !.pending = NoPending, !.circ = 0, !.calls = <<>>,
               !.pieces = <<>>]

\* Instance r goes on as Advance left it.
Continue(r, a, fcache) ==
    /\ run' = [run EXCEPT ![r] = a.run]
    /\ fileCache' = fcache
    /\ variableCache' = a.variableCache
    /\ UNCHANGED <<fs, call>>

\* The host calls Once(root, {result}) of instance r on its document, up to
\* the first await: the warning and the return for fallbacks that are no
\* array or empty, else both caches cleared and the loop entered.
OnceBegin(r) ==
    /\ run[r].pc \in {"idle", "done"}
    /\ run[r].pass < run[r].quota
    /\ IF InvalidFallbacks(Fallbacks(run[r].opts))
       THEN /\ run' = [run EXCEPT ![r] =
                          [Started(run[r]) EXCEPT !.pc = "done",
                                                  !.warnings = <<ConfigWarning>>]]
            /\ UNCHANGED <<fs, fileCache, variableCache, call>>
       ELSE Continue(r, Advance(Started(run[r]), 1, {}, {}), {})

FallbackPath(rr) == Fallbacks(rr.opts).items[rr.i]

\* Whether the awaited loadCssFile rejects.
Rejected(rr) == ~rr.pending.hit /\ LoadThrows(fs, FallbackPath(rr))

\* fileCache.set(filePath, root) of a load that read and parsed the file.
FileCacheAfter(rr) ==
    IF rr.pending.hit \/ Rejected(rr) THEN fileCache
    ELSE FileCacheSet(fileCache, FallbackPath(rr), fs[FallbackPath(rr)].decls)

\* The try block after the await: the variables of the root merged into
\* variableMap, or the catch block.
Merged(rr) ==
    IF Rejected(rr) THEN Caught(rr, FallbackPath(rr))
    ELSE [rr EXCEPT !.variableMap =
             MergeVariables(@, extractVariables(
                                   IF rr.pending.hit THEN rr.pending.root
                                   ELSE fs[FallbackPath(rr)].decls))]

\* The await of loadCssFile resumes in instance r: the cached root, or the
\* file read and parsed and put in fileCache, is extracted and merged, a
\* failure is caught, and the loop goes on to its next await or to the end.
LoadResume(r) ==
    /\ run[r].pc = "await"
    /\ Continue(r, Advance([Merged(run[r]) EXCEPT !.pending = NoPending],
                           run[r].i + 1, FileCacheAfter(run[r]), variableCache),
                FileCacheAfter(run[r]))

Next == \E r \in Runs : OnceBegin(r) \/ LoadResume(r)

\* resolveVariable(varName, variableMap) called by itself, resolving and
\* result at their defaults, on the Map of the sheet at path.
NoCall == [made |-> FALSE, varName |-> <<>>, variableMap |-> <<>>, res |-> Null]

Called(varName, variableMap, r) ==
    /\ call' = [made |-> TRUE, varName |-> varName, variableMap |-> variableMap,
                res |-> r.res]
    /\ variableCache' = r.cache
    /\ UNCHANGED <<fs, fileCache, run>>

ResolveCall(varName, path) ==
    /\ fs[path].kind = "ok"
    /\ Called(varName, MergeVariables(<<>>, extractVariables(fs[path].decls)),
              resolveVariable(varName,
                              MergeVariables(<<>>, extractVariables(fs[path].decls)),
                              {}, variableCache))

\* --------------------------------------------------------------- inputs

MaxSources == 2     \* entries of a fallbacks array
MaxDecls == 1       \* declarations of a rewritten document
MaxPasses == 2      \* times the host runs the plugin over one document

SeqsUpTo(S, n) == UNION {[1..k -> S] : k \in 0..n}

V(name) == <<VarOpen, name, Close>>
VF(name, fallback) == <<VarOpen, name, Comma>> \o fallback \o <<Close>>
Decl(prop, value) == [prop |-> prop, value |-> value]
Sheet(decls) == [kind |-> "ok", decls |-> decls]
Malformed == [kind |-> "malformed", decls |-> <<>>]
Array(items) == [kind |-> "array", items |-> items]

\* A sheet of declarations of the given properties, the k-th with the k-th
\* of the literals: the value tells the file and the place it was declared.
SheetOf(props, lits) == Sheet([k \in 1..Len(props) |-> Decl(props[k], <<lits[k]>>)])

IdleRun(opts, doc, quota) ==
    [pc |-> "idle", opts |-> opts, doc |-> doc, root |-> doc, quota |-> quota,
     pass |-> 0, i |-> 0, variableMap |-> <<>>, circularRefs |-> {},
     warnings |-> <<>>, pending |-> NoPending, circ |-> 0, calls |-> <<>>,
     pieces |-> <<>>]

Names == {"--a", "--b", "--c"}
Unknown == "--u"

\* Sources for the precedence merge: a sheet of up to two declarations of
\* --a and color, a sheet declaring --a alone or --a and --b in either
\* order, a sheet that does not parse, a path with no file,
\* an entry that is not a string; every fallbacks option up to MaxSources
\* entries and the shapes that are no array, while a second instance loads
\* theme.css.
MergeProps == {"--a", "color"}
ThemeProps == {<<"--a">>, <<"--a", "--b">>, <<"--b", "--a">>}
MergeEntries == {"base.css", "theme.css", "broken.css", "missing.css", NotAString}
MergeOpts ==
    {Array(items) : items \in SeqsUpTo(MergeEntries, MaxSources)}
    \cup {[kind |-> k, items |-> <<>>] : k \in {"absent", "null"}}
    \cup {[kind |-> "string", items |-> <<"n", "o">>]}
MergeDoc == << V("--a") \o <<Space>> \o V("--b") \o <<Space>> \o VF("--c", <<Space, "red">>) >>

InitMerge ==
    /\ \E p \in SeqsUpTo(MergeProps, 2), q \in ThemeProps :
          fs = [path \in {"base.css", "theme.css", "broken.css"} |->
                  IF path = "base.css" THEN SheetOf(p, <<"1px", "2px">>)
                  ELSE IF path = "theme.css" THEN SheetOf(q, <<"3px", "4px">>)
                  ELSE Malformed]
    /\ \E o \in MergeOpts :
          run = [r \in Runs |->
                   IF r = 1 THEN IdleRun(o, MergeDoc, 1)
                   ELSE IdleRun(Array(<<"theme.css">>), MergeDoc, 1)]
    /\ fileCache = {}
    /\ variableCache = {}
    /\ call = NoCall

\* Sources for resolution: one sheet declaring each of --a, --b, --c or not,
\* with a literal, a reference with or without fallback, or two references.
Literals == {<<"10px">>, <<"calc(", "10px", Close>>, <<DollarAmp>>, <<>>}
ResolveValues ==
    Literals
    \cup {V(n) : n \in Names \cup {Unknown}}
    \cup {VF(n, <<Space, "red">>) : n \in Names \cup {Unknown}}
    \cup {VF(Unknown, <<Space, "calc(", "1px", Close, Space, "2px">>)}
    \cup {V(n) \o <<Space>> \o V(m) : n, m \in Names}
ResolveDoc == << V("--a") \o <<Space>> \o VF("--b", <<Space, "red">>) \o <<Space>> \o V("--c") >>

\* A target of two declarations whose second uses the variables of the
\* first again.
ResolveAgainDoc ==
    << V("--c"),
       V("--b") \o <<Space>> \o V("--a") \o <<Space>> \o V("--c") >>

Absent == <<"(absent)">>
SheetOfMap(f) ==
    LET present == {n \in Names : f[n] # Absent}
        order == <<"--a", "--b", "--c">>
        decls == SelectSeq(order, LAMBDA n : n \in present)
    IN  Sheet([k \in 1..Len(decls) |-> Decl(decls[k], f[decls[k]])])

InitResolve ==
    /\ \E f \in [Names -> ResolveValues \cup {Absent}] :
          fs = [path \in {"base.css"} |-> SheetOfMap(f)]
    /\ \E doc \in {ResolveDoc, ResolveAgainDoc} :
          run = [r \in Runs |->
                   IF r = 1 THEN IdleRun(Array(<<"base.css">>), doc, 1)
                   ELSE IdleRun(EmptyArray, <<>>, 0)]
    /\ fileCache = {}
    /\ variableCache = {}
    /\ call = NoCall

\* Documents for the rewriter: up to MaxDecls declarations of one or two
\* pieces each, over a sheet in which --a is a literal, --b a function
\* call, --c a reference to a name no sheet declares, or --b and --c in a
\* cycle, run MaxPasses times; the one-piece documents also with a
\* fallbacks option of every other shape.
RewriteSheet ==
    Sheet(<<Decl("--a", <<"10px">>),
            Decl("--b", <<"calc(", "1px", Close, Space, "2px">>),
            Decl("--c", V(Unknown))>>)
CyclicSheet ==
    Sheet(<<Decl("--a", <<"10px">>), Decl("--b", V("--c")), Decl("--c", V("--b"))>>)
Pieces ==
    {V(n) : n \in Names \cup {Unknown}}
    \cup {VF(n, <<Space, "red">>) : n \in {"--a", Unknown}}
    \cup {VF(n, <<Space, "calc(", "1px", Close>>) : n \in {"--a", Unknown}}
    \cup {<<"solid">>}
RewriteOpts ==
    {Array(<<"base.css">>), EmptyArray, [kind |-> "string", items |-> <<"n", "o">>]}
    \cup {[kind |-> k, items |-> <<>>] : k \in {"absent", "null"}}
RewriteValues == Pieces \cup {p \o <<Space>> \o q : p, q \in Pieces}

InitRewrite ==
    /\ \E sheet \in {RewriteSheet, CyclicSheet} : fs = [path \in {"base.css"} |-> sheet]
    /\ \E doc \in SeqsUpTo(RewriteValues, MaxDecls), o \in RewriteOpts :
          /\ o = Array(<<"base.css">>) \/ doc \in SeqsUpTo(Pieces, 1)
          /\ run = [r \in Runs |->
                      IF r = 1 THEN IdleRun(o, doc, MaxPasses)
                      ELSE IdleRun(EmptyArray, <<>>, 0)]
    /\ fileCache = {}
    /\ variableCache = {}
    /\ call = NoCall

\* Two instances over sources whose variable sets differ and print alike:
\* list.css declares --a as a comma separated list, pair.css declares --a
\* and --b; each instance has a fallbacks option of up to MaxSources of them.
ListSheet == Sheet(<<Decl("--a", <<"1px", Comma, "--b", Comma, "2px">>)>>)
PairSheet == Sheet(<<Decl("--a", <<"1px">>), Decl("--b", <<"2px">>)>>)
SharedDoc == << V("--a") \o <<Space>> \o V("--b") >>
SharedOpts == {Array(items) : items \in SeqsUpTo({"list.css", "pair.css"}, MaxSources)}

InitShared ==
    /\ fs = [path \in {"list.css", "pair.css"} |->
                IF path = "list.css" THEN ListSheet ELSE PairSheet]
    /\ \E o \in [Runs -> SharedOpts] :
          run = [r \in Runs |-> IdleRun(o[r], SharedDoc, 1)]
    /\ fileCache = {}
    /\ variableCache = {}
    /\ call = NoCall

Init == InitMerge \/ InitResolve \/ InitRewrite \/ InitShared

Spec == Init /\ [][Next]_vars

\* resolveVariable by itself, on every Map of InitResolve and every name.
NextResolver == \E n \in Names \cup {Unknown} : ResolveCall(<<n>>, "base.css")

InitResolver == InitResolve /\ run[1].doc = ResolveDoc

ResolverSpec == InitResolver /\ [][NextResolver]_vars

\* ----------------------------------------------------- what is claimed

Max(S) == CHOOSE x \in S : \A y \in S : y <= x
Min(S) == CHOOSE x \in S : \A y \in S : x <= y

Items(r) == Fallbacks(run[r].opts).items
ValidConfig(r) == run[r].opts.kind = "array" /\ run[r].opts.items # <<>>

\* How many entries of the fallbacks list the loop of instance r is past.
Completed(r) ==
    IF ~ValidConfig(r) THEN 0
    ELSE IF run[r].pc = "await" THEN run[r].i - 1
    ELSE IF run[r].pc = "done" THEN Len(Items(r))
    ELSE 0

\* A source that is a string naming a file that is there and parses.
Loads(entry) == entry \in DOMAIN fs /\ fs[entry].kind = "ok"
Declares(entry, n) == \E k \in DOMAIN fs[entry].decls : fs[entry].decls[k].prop = n
LastDeclared(entry, n) ==
    fs[entry].decls[Max({k \in DOMAIN fs[entry].decls : fs[entry].decls[k].prop = n})].value

\* The places in the list, among those the loop is past, whose source
\* loads and declares n.
Definers(r, n) ==
    {j \in 1..Completed(r) : Loads(Items(r)[j]) /\ Declares(Items(r)[j], n)}

TakesLatest(r, n, J) ==
    IF J = {} THEN ~MapHas(run[r].variableMap, <<n>>)
    ELSE /\ MapHas(run[r].variableMap, <<n>>)
         /\ MapGet(run[r].variableMap, <<n>>) = LastDeclared(Items(r)[Max(J)], n)

\* C1: a name declared in several fallback sources has, in the merged
\* variable set, the value of the source latest in the configured list that
\* loads and declares it, wherever in the files the declarations stand; a
\* name no loaded source declares is not in the set.
C1_LaterSourceWins ==
    \A r \in Runs : \A n \in Names : TakesLatest(r, n, Definers(r, n))

Overrides(r, n, J) ==
    /\ Cardinality(J) >= 2
    /\ Items(r)[Min(J)] # Items(r)[Max(J)]
    /\ MapGet(run[r].variableMap, <<n>>) # LastDeclared(Items(r)[Min(J)], n)

\* A finished run whose two sources are different files both declaring a
\* name with different values, the other instance having run too.
C1_Witness ==
    /\ run[1].pc = "done" /\ run[2].pc = "done" /\ run[2].pass = 1
    /\ \E n \in Names : Overrides(1, n, Definers(1, n))

\* ---- C7

Fails(entry) == ~Loads(entry)

FileWarningsOf(warnings) == SelectSeq(warnings, LAMBDA w : w.type = "file")

RECURSIVE WarningsFor(_)
WarningsFor(entries) ==
    IF entries = <<>> THEN <<>>
    ELSE <<[type |-> "file", word |-> <<Head(entries)>>]>> \o WarningsFor(Tail(entries))

\* The variable set of the given sources, each loading, in order.
RECURSIVE MergeOf(_, _)
MergeOf(entries, variableMap) ==
    IF entries = <<>> THEN variableMap
    ELSE MergeOf(Tail(entries),
                 MergeVariables(variableMap, extractVariables(fs[Head(entries)].decls)))

Past(r) == SubSeq(Items(r), 1, Completed(r))

\* C7: a source that cannot be read or parsed gives one warning naming it
\* and contributes nothing; the run does not abort, and the sources before
\* and after it contribute in their configured positions.
C7_FailedSourceSkipped ==
    \A r \in Runs :
        /\ run[r].pc # "threw"
        /\ ValidConfig(r) =>
              /\ FileWarningsOf(run[r].warnings)
                    = WarningsFor(SelectSeq(Past(r), Fails))
              /\ run[r].variableMap = MergeOf(SelectSeq(Past(r), Loads), <<>>)

\* A finished run whose first source fails and whose second loads and
\* declares a name.
C7_Witness ==
    /\ run[1].pc = "done" /\ ValidConfig(1) /\ Len(Items(1)) = 2
    /\ Fails(Items(1)[1]) /\ Loads(Items(1)[2])
    /\ run[1].variableMap # <<>>
    /\ Len(run[1].warnings) = 1

\* ---- C8

\* What a run over doc with an empty fallbacks list leaves.
EmptyListOutcome(doc) ==
    [pc |-> "done", warnings |-> <<ConfigWarning>>, root |-> doc, variableMap |-> <<>>]

Outcome(rr) ==
    [pc |-> rr.pc, warnings |-> rr.warnings, root |-> rr.root,
     variableMap |-> rr.variableMap]

NoList(opts) == opts.kind \in {"absent", "null", "string"}
EmptyList(opts) == opts.kind = "array" /\ opts.items = <<>>

\* C8: with a fallbacks option that is absent, null, a plain string or an
\* empty array, a run ends with exactly one configuration warning and the
\* target unchanged, the same for all of them.
C8_InvalidConfigIsNoOp ==
    \A r \in Runs :
        (run[r].pass >= 1 /\ (NoList(run[r].opts) \/ EmptyList(run[r].opts)))
            => Outcome(run[r]) = EmptyListOutcome(run[r].doc)

\* A run with a null option over a document with var() occurrences, ended.
C8_Witness ==
    /\ run[1].opts.kind = "null" /\ run[1].pass >= 1 /\ run[1].pc = "done"
    /\ run[1].doc = MergeDoc

\* ---- occurrences of the target and where they are in the output

\* By how much the text appended for the first k matches is longer than
\* the matches.
RECURSIVE Grown(_, _, _)
Grown(ms, pieces, k) ==
    IF k = 0 THEN 0
    ELSE Len(pieces[k]) - (ms[k].end - ms[k].start + 1) + Grown(ms, pieces, k - 1)

\* Where the text for match k starts in the output.
OutStart(ms, pieces, k) == ms[k].start + Grown(ms, pieces, k - 1)

\* The output has text where match k of the input was.
HasAt(out, ms, pieces, k, text) ==
    /\ OutStart(ms, pieces, k) + Len(text) - 1 <= Len(out)
    /\ Slice(out, OutStart(ms, pieces, k), OutStart(ms, pieces, k) + Len(text) - 1) = text

\* Match k of value stands in the output as it was.
InPlace(out, value, ms, pieces, k) == HasAt(out, ms, pieces, k, FullMatch(value, ms[k]))

Finished(r) == run[r].pc = "done" /\ ValidConfig(r)

\* ---- C6

Unknowns(variableMap, ms) == {k \in DOMAIN ms : ~MapHas(variableMap, Trim(ms[k].name))}

UnknownsKept(rr, j, ms) ==
    /\ \A k \in Unknowns(rr.variableMap, ms) :
          InPlace(rr.root[j], rr.doc[j], ms, rr.pieces[j], k)
    /\ Unknowns(rr.variableMap, ms) = DOMAIN ms => rr.root[j] = rr.doc[j]

\* C6: every var() occurrence of the target whose name is not in the
\* merged variable set stands in the output as it was, fallback clause
\* included, also when other occurrences of the declaration are rewritten;
\* a declaration with no other occurrences is unchanged.
C6_UnknownUnchanged ==
    \A r \in Runs : Finished(r) =>
        \A j \in DOMAIN run[r].doc : UnknownsKept(run[r], j, Matches(run[r].doc[j]))

ShiftedUnknown(rr, j, ms) ==
    \E k \in Unknowns(rr.variableMap, ms) :
        /\ ms[k].hasFallback
        /\ OutStart(ms, rr.pieces[j], k) > ms[k].start

\* A finished run with an unknown occurrence carrying a fallback clause,
\* after an occurrence that was rewritten.
C6_Witness ==
    /\ Finished(1)
    /\ \E j \in DOMAIN run[1].doc : ShiftedUnknown(run[1], j, Matches(run[1].doc[j]))

\* ---- C3

\* The names of variableMap the value of n refers to.
RefsOf(variableMap, n) ==
    {Trim(m.name) : m \in {Matches(MapGet(variableMap, n))[k] :
                              k \in DOMAIN Matches(MapGet(variableMap, n))}}
       \cap {variableMap[k][1] : k \in DOMAIN variableMap}

RECURSIVE ReachFrom(_, _, _)
ReachFrom(variableMap, frontier, seen) ==
    IF frontier \subseteq seen THEN seen
    ELSE ReachFrom(variableMap,
                   UNION {RefsOf(variableMap, n) : n \in frontier \ seen},
                   seen \cup frontier)

\* n lies on a reference cycle of variableMap.
OnCycle(variableMap, n) ==
    /\ MapHas(variableMap, n)
    /\ n \in ReachFrom(variableMap, RefsOf(variableMap, n), {})

Cyclics(variableMap, ms) == {k \in DOMAIN ms : OnCycle(variableMap, Trim(ms[k].name))}

CyclicsKept(rr, j, ms) ==
    \A k \in Cyclics(rr.variableMap, ms) :
        InPlace(rr.root[j], rr.doc[j], ms, rr.pieces[j], k)

UsesCyclic(rr) ==
    \E j \in DOMAIN rr.doc : Cyclics(rr.variableMap, Matches(rr.doc[j])) # {}

Warned(rr) == \E k \in DOMAIN rr.warnings : rr.warnings[k].type = "circular"

\* C3: when a variable of the merged set lies on a reference cycle, a run
\* over a target using it ends, every occurrence of that variable stands in
\* the output as it was, and there is a circular reference warning.
C3_CyclicUnchanged ==
    \A r \in Runs : Finished(r) =>
        /\ \A j \in DOMAIN run[r].doc :
              CyclicsKept(run[r], j, Matches(run[r].doc[j]))
        /\ UsesCyclic(run[r]) => Warned(run[r])

\* A finished run over a declaration that uses a variable on a cycle next to
\* one that is rewritten.
C3_Witness ==
    /\ Finished(1) /\ Warned(run[1])
    /\ \E j \in DOMAIN run[1].doc :
          /\ Cyclics(run[1].variableMap, Matches(run[1].doc[j])) # {}
          /\ run[1].root[j] # run[1].doc[j]

\* ---- C2

\* C2: a run over the output of a run with the same configuration leaves
\* the text as it is.
C2_SecondRunIsNoOp ==
    \A r \in Runs :
        (run[r].pc = "done" /\ run[r].pass >= 2) => run[r].root = run[r].doc

\* ---- C4

IsLiteral(value) == \A k \in DOMAIN value : value[k] # VarOpen
IsReference(value) == Len(value) = 3 /\ value[1] = VarOpen /\ value[3] = Close

NoChain == [ok |-> FALSE, val |-> <<>>]

\* The literal at the end of the chain of plain references from n, of at
\* most fuel links.
RECURSIVE ChainEnd(_, _, _)
ChainEnd(variableMap, n, fuel) ==
    IF ~MapHas(variableMap, n) THEN NoChain
    ELSE IF IsLiteral(MapGet(variableMap, n))
    THEN [ok |-> TRUE, val |-> MapGet(variableMap, n)]
    ELSE IF fuel > 0 /\ IsReference(MapGet(variableMap, n))
    THEN ChainEnd(variableMap, <<MapGet(variableMap, n)[2]>>, fuel - 1)
    ELSE NoChain

ChainRewritten(rr, j, ms, k, end) ==
    end.ok => HasAt(rr.root[j], ms, rr.pieces[j], k,
                    <<VarOpen>> \o ms[k].name \o <<Comma, Space>> \o end.val \o <<Close>>)

ChainsRewritten(rr, j, ms) ==
    \A k \in DOMAIN ms :
        ~ms[k].hasFallback =>
            ChainRewritten(rr, j, ms, k,
                           ChainEnd(rr.variableMap, ms[k].name, Len(rr.variableMap)))

\* C4: an occurrence var(v1) whose name heads an acyclic chain of plain
\* references ending in a literal is rewritten to var(v1, literal).
C4_ChainYieldsLiteral ==
    \A r \in Runs : Finished(r) =>
        \A j \in DOMAIN run[r].doc : ChainsRewritten(run[r], j, Matches(run[r].doc[j]))

\* ---- C5

Opens(token) == token \in {VarOpen, "calc("}

\* The index of the parenthesis closing the one opened before index i at
\* the given depth, 0 if there is none.
RECURSIVE ClosingFrom(_, _, _)
ClosingFrom(s, i, depth) ==
    IF i > Len(s) THEN 0
    ELSE IF Opens(s[i]) THEN ClosingFrom(s, i + 1, depth + 1)
    ELSE IF s[i] = Close
    THEN IF depth = 1 THEN i ELSE ClosingFrom(s, i + 1, depth - 1)
    ELSE ClosingFrom(s, i + 1, depth)

\* Where the whole occurrence starting at match m of s ends.
WholeEnd(s, m) == ClosingFrom(s, m.start + 1, 1)

\* The text of s after the whole occurrence of match k, up to the next match.
After(s, ms, k) ==
    Slice(s, WholeEnd(s, ms[k]) + 1,
          IF k < Len(ms) THEN ms[k + 1].start - 1 ELSE Len(s))

\* The output has the new occurrence where match k was and then the text
\* that followed the whole occurrence, and no more if k is the last match.
Overridden(out, s, ms, pieces, k, new) ==
    /\ HasAt(out, ms, pieces, k, new \o After(s, ms, k))
    /\ k = Len(ms) =>
          Len(out) = OutStart(ms, pieces, k) + Len(new \o After(s, ms, k)) - 1

OverriddenBy(rr, j, ms, k, res) ==
    Truthy(res) =>
        Overridden(rr.root[j], rr.doc[j], ms, rr.pieces[j], k,
                   WithFallback(Trim(ms[k].name), res.val))

AllOverridden(rr, j, ms) ==
    \A k \in DOMAIN ms :
        (ms[k].hasFallback /\ Trim(ms[k].name) \notin rr.circularRefs) =>
            OverriddenBy(rr, j, ms, k,
                         resolveVariable(Trim(ms[k].name), rr.variableMap, {}, {}).res)

\* C5: where an occurrence var(name, existing) has a name resolving to S,
\* the output has var(name, S) in the place of the whole occurrence, up to
\* its closing parenthesis, followed by what followed the occurrence.
C5_FallbackReplaced ==
    \A r \in Runs : Finished(r) =>
        \A j \in DOMAIN run[r].doc : AllOverridden(run[r], j, Matches(run[r].doc[j]))

\* ---- C9

\* The CycleSet of a variable set: what the detection pre-pass computes.
CycleSet(variableMap) == DetectAll(variableMap).refs

\* C9: resolveVariable called with an empty resolution path on a name of
\* the CycleSet of the variable set returns null, never a string.
C9_CyclicResolvesToNull ==
    (call.made /\ call.varName \in CycleSet(call.variableMap)) => call.res.isNull

\* ---- C10

\* The names of variableMap on a reference cycle.
CyclicNames(variableMap) ==
    {variableMap[k][1] : k \in {i \in DOMAIN variableMap :
                                   OnCycle(variableMap, variableMap[i][1])}}

\* The value of n with every nested call replaced by the rule: the
\* resolution of the inner name if it is in the set and not cyclic, else the
\* trimmed fallback clause if the call has one, else the call as it is.
RECURSIVE Resolution(_, _, _)
RECURSIVE Substituted(_, _, _, _, _, _)
RECURSIVE Replacement(_, _, _, _)
Resolution(variableMap, cyclic, n) ==
    Substituted(variableMap, cyclic, MapGet(variableMap, n),
                Matches(MapGet(variableMap, n)), 1, 0)

Substituted(variableMap, cyclic, value, ms, k, lastEnd) ==
    IF k > Len(ms) THEN Slice(value, lastEnd + 1, Len(value))
    ELSE Slice(value, lastEnd + 1, ms[k].start - 1)
         \o Replacement(variableMap, cyclic, value, ms[k])
         \o Substituted(variableMap, cyclic, value, ms, k + 1, ms[k].end)

Replacement(variableMap, cyclic, value, m) ==
    IF MapHas(variableMap, Trim(m.name)) /\ Trim(m.name) \notin cyclic
    THEN Resolution(variableMap, cyclic, Trim(m.name))
    ELSE IF m.hasFallback THEN Trim(m.fallback)
    ELSE FullMatch(value, m)

FollowsRule(c, cyclic) ==
    (MapHas(c.variableMap, c.varName) /\ c.varName \notin cyclic)
        => c.res = Str(Resolution(c.variableMap, cyclic, c.varName))

\* C10: for a name in the variable set and not on a cycle, resolveVariable
\* returns the value with every nested var() call replaced by the resolution
\* of its inner name where that resolves, else by its trimmed fallback
\* clause where it has one, a cyclic inner name included, else left as it is.
C10_SubstitutionRule ==
    call.made => FollowsRule(call, CyclicNames(call.variableMap))

\* ---- C11

\* C11: after the detection pre-pass a name is in circularRefs only if it
\* lies on a reference cycle: following the references from the name leads
\* back to the name.
C11_OnlyCycleParticipants ==
    \A r \in Runs : Finished(r) =>
        \A n \in run[r].circularRefs : OnCycle(run[r].variableMap, n)

\* ---- C12

Rewrites(rr, j, ms, k, res) ==
    ~res.isNull =>
        HasAt(rr.root[j], ms, rr.pieces[j], k, WithFallback(Trim(ms[k].name), res.val))

AllRewritten(rr, j, ms) ==
    \A k \in DOMAIN ms :
        Trim(ms[k].name) \notin rr.circularRefs =>
            Rewrites(rr, j, ms, k,
                     resolveVariable(Trim(ms[k].name), rr.variableMap, {}, {}).res)

\* C12: an occurrence whose name is not in the CycleSet and for which
\* resolveVariable returns a string, whatever the string, is rewritten to
\* var(name, string) in the value of its declaration.
C12_EveryStringRewritten ==
    \A r \in Runs : Finished(r) =>
        \A j \in DOMAIN run[r].doc : AllRewritten(run[r], j, Matches(run[r].doc[j]))

\* ---- C13

\* What the pre-pass did is within the bounds: no call was entered with a
\* path of more names than the variable set has keys, and no walk went on
\* after a revisit, so there are no more revisits than walks.
WalkBounded(variableMap, d) ==
    /\ d.depth <= Len(variableMap)
    /\ Len(d.warns) <= Len(variableMap)

\* C13: the detection pre-pass over the merged variable set, cyclic or not,
\* ends; the path grows with the depth of the recursion and never holds more
\* names than the set has keys, and a walk stops at its first revisit.
C13_DetectionBounded ==
    \A r \in Runs : Finished(r) =>
        WalkBounded(run[r].variableMap, DetectAll(run[r].variableMap))

Deepest(variableMap, d) ==
    /\ Len(variableMap) = 3
    /\ d.depth = 3
    /\ Len(d.warns) = 3

\* A finished run over three variables in one cycle: every walk goes
\* through all three and ends at its revisit.
C13_Witness ==
    /\ Finished(1)
    /\ Deepest(run[1].variableMap, DetectAll(run[1].variableMap))

\* ---- C15

\* A reference cycle can be reached from n.
ReachesCycle(variableMap, n) ==
    /\ MapHas(variableMap, n)
    /\ \E m \in ReachFrom(variableMap, {n}, {}) : OnCycle(variableMap, m)

AllReachingIn(rr) ==
    \A k \in DOMAIN rr.variableMap :
        ReachesCycle(rr.variableMap, rr.variableMap[k][1])
            => rr.variableMap[k][1] \in rr.circularRefs

NoneResolvedIntoCycle(rr) ==
    \A k \in DOMAIN rr.calls : ~ReachesCycle(rr.variableMap, rr.calls[k][1])

\* C15: after the detection pre-pass every key from which a reference cycle
\* can be reached is in circularRefs, no name the rewriter gives to
\* resolveVariable reaches a cycle, and the resolving.has(varName) branch of
\* resolveVariable is not taken in a run.
C15_NeverResolvesIntoCycle ==
    \A r \in Runs : Finished(r) =>
        /\ AllReachingIn(run[r])
        /\ NoneResolvedIntoCycle(run[r])
        /\ run[r].circ = 0

LeadsIn(rr) ==
    \E k \in DOMAIN rr.variableMap :
        /\ ReachesCycle(rr.variableMap, rr.variableMap[k][1])
        /\ ~OnCycle(rr.variableMap, rr.variableMap[k][1])
        /\ \E i \in DOMAIN Matches(rr.doc[1]) :
              Trim(Matches(rr.doc[1])[i].name) = rr.variableMap[k][1]

\* A finished run whose target uses a variable that leads into a cycle
\* without lying on it, next to a variable that is resolved and rewritten.
C15_Witness ==
    /\ Finished(1) /\ run[1].doc # <<>>
    /\ LeadsIn(run[1])
    /\ \E k \in DOMAIN run[1].calls : ~run[1].calls[k][2].isNull

\* ---- C14

\* Every value resolveVariable gave the rewriter of rr is what resolving the
\* name under the variable set of rr, without a cache, gives.
OwnValues(rr) ==
    \A k \in DOMAIN rr.calls :
        rr.calls[k][2] = resolveVariable(rr.calls[k][1], rr.variableMap, {}, {}).res

\* C14: with two instances interleaving at the awaits of their loads, the
\* variableCache of the module gives no run a value computed under the
\* variable set of the other: what a run gets for a name is what resolving
\* the name under its own variable set gives.
C14_CacheServesOwnMapping ==
    \A r \in Runs : Finished(r) => OwnValues(run[r])

\* ---- C16

Alone(r) == \A q \in Runs \ {r} : run[q].pass = 0

Uncached(rr) ==
    \A j \in DOMAIN rr.doc :
        rr.root[j] = RewriteDecl(rr.doc[j], rr.variableMap, rr.circularRefs, {}).value

\* C16: in a run of one instance by itself every value the rewriter gets
\* from resolveVariable, with the variableCache in use, is the value of a
\* resolution without cache from an empty path, and every declaration is
\* rewritten as it is when it is the only one.
C16_CacheTransparent ==
    \A r \in Runs : (Finished(r) /\ Alone(r)) =>
        /\ OwnValues(run[r])
        /\ Uncached(run[r])

\* The name called for at place k of the log was called for before.
CalledAgain(calls, k) ==
    /\ ~calls[k][2].isNull
    /\ \E i \in 1..(k - 1) : calls[i][1] = calls[k][1]

\* A finished run by itself over two declarations, the second rewritten
\* with a value that was in the cache from the first.
C16_Witness ==
    /\ Finished(1) /\ Alone(1)
    /\ Len(run[1].doc) = 2
    /\ run[1].root[2] # run[1].doc[2]
    /\ \E k \in DOMAIN run[1].calls : CalledAgain(run[1].calls, k)

====
